---- MODULE Spec2Model ----
(***************************************************************************)
(* Course-Selection-and-GPA-Calculator: the planning core of src/core.py. *)
(*                                                                         *)
(* Representation.                                                         *)
(*  - A Python str is a sequence of one-character strings.  The three      *)
(*    season characters of SEASONS are written in ASCII: "F" is the fall   *)
(*    character (U+79CB), "S" the spring character (U+6625), "U" the       *)
(*    summer character (U+590F).                                           *)
(*  - Credits are counted in half credits (every credit value of the      *)
(*    built-in catalogue is a multiple of 0.5, so the float sums of the    *)
(*    code are exact): 6 is 3.0 credits.                                   *)
(*  - A GPA is a record [k, v]: k = "none" is None, k = "num" a float of   *)
(*    v thousandths, k = "nan" the float NaN, k = "str" a text float()     *)
(*    rejects.                                                             *)
(*  - A raised exception is the value of `result`, named after the error   *)
(*    taxonomy; "ok" is a normal return.                                   *)
(***************************************************************************)
EXTENDS Integers, Sequences, FiniteSets, TLC

\* catalog, term_credit_limit, elective_credit_requirement and items are the
\* fields of the session's Catalog and EnrollmentPlan.  op and result are the
\* last call and how it ended; violated is the set of add_course rules the
\* arguments of the last add_course call broke (empty after any other call).
VARIABLES catalog, term_credit_limit, elective_credit_requirement, items,
          op, result, violated

vars == <<catalog, term_credit_limit, elective_credit_requirement, items,
          op, result, violated>>

(***************************************************************************)
(* Bounds of the model.                                                    *)
(***************************************************************************)
\* Actual semesters offered to add_course have a year in 1..MaxYear.
MaxYear == 2

\* A configuration document holds at most MaxLoadItems plan items.
MaxLoadItems == 2

\* A course list handed to Catalog() holds at most MaxCourses courses.
MaxCourses == 3

(***************************************************************************)
(* Global constants (core.py 13-21).                                       *)
(***************************************************************************)
SEASONS == <<"F", "S", "U">>

SeasonSet == {SEASONS[i] : i \in DOMAIN SEASONS}

PLAN_SEMESTERS ==
  << <<"1", "F">>, <<"1", "S">>, <<"1", "U">>,
     <<"2", "F">>, <<"2", "S">>, <<"2", "U">>,
     <<"3", "F">>, <<"3", "S">>, <<"3", "U">>,
     <<"4", "F">>, <<"4", "S">>, <<"4", "U">> >>

PlanSemesterSet == {PLAN_SEMESTERS[i] : i \in DOMAIN PLAN_SEMESTERS}

(***************************************************************************)
(* Strings.                                                                *)
(***************************************************************************)
DigitChars == <<"0", "1", "2", "3", "4", "5", "6", "7", "8", "9">>

Digits == {DigitChars[i] : i \in DOMAIN DigitChars}

NonZeroDigits == Digits \ {"0"}

\* str.strip(): drop the leading and the trailing white space.
strip(s) ==
  LET keep == {i \in DOMAIN s : s[i] # " "}
      lo == CHOOSE i \in keep : \A j \in keep : i <= j
      hi == CHOOSE i \in keep : \A j \in keep : j <= i
  IN  IF keep = {} THEN << >> ELSE SubSeq(s, lo, hi)

\* COURSE_SEM_RE.fullmatch: an optional year (no leading zero), one season.
COURSE_SEM_RE(s) ==
  /\ Len(s) >= 1
  /\ s[Len(s)] \in SeasonSet
  /\ Len(s) >= 2 => s[1] \in NonZeroDigits
  /\ \A i \in 2..(Len(s) - 1) : s[i] \in Digits

\* ACTUAL_SEM_RE.fullmatch: a year (no leading zero), one season.
ACTUAL_SEM_RE(s) ==
  /\ Len(s) >= 2
  /\ s[1] \in NonZeroDigits
  /\ \A i \in 2..(Len(s) - 1) : s[i] \in Digits
  /\ s[Len(s)] \in SeasonSet

\* The value of a call: a normal return of v, or the exception err.
Return(v) == [err |-> "ok", val |-> v]

Raise(e) == [err |-> e, val |-> << >>]

extract_season(semester_str) ==
  LET s == strip(semester_str)
  IN  IF ~COURSE_SEM_RE(s) THEN Raise("InvalidSemesterTag")
      ELSE IF s[Len(s)] \notin SeasonSet THEN Raise("InvalidSeason")
      ELSE Return(s[Len(s)])

ensure_actual_semester(sem) ==
  LET s == strip(sem)
  IN  IF ~ACTUAL_SEM_RE(s) THEN Raise("InvalidActualSemester")
      ELSE Return(s)

season_of_actual_semester(sem) ==
  LET r == ensure_actual_semester(sem)
  IN  IF r.err # "ok" THEN r ELSE Return(r.val[Len(r.val)])

(***************************************************************************)
(* GPA values.                                                             *)
(***************************************************************************)
None == [k |-> "none", v |-> 0]

Num(x) == [k |-> "num", v |-> x]

NaN == [k |-> "nan", v |-> 0]

Text == [k |-> "str", v |-> 0]

\* round(v, 2) of a float of x thousandths whose last digit is not 5 (the
\* direction of a half depends on the binary value of the float).
round2(x) == IF x % 10 < 5 THEN x - (x % 10) ELSE x - (x % 10) + 10

\* Every comparison with NaN is false, so NaN passes both range tests and
\* round(nan, 2) is nan.
validate_gpa(gpa) ==
  IF gpa.k = "none" THEN Return(None)
  ELSE IF gpa.k = "str" THEN Raise("InvalidGpa")
  ELSE IF gpa.k = "num" /\ (gpa.v < 0 \/ gpa.v > 4000) THEN Raise("InvalidGpa")
  ELSE IF gpa.k = "nan" THEN Return(NaN)
  ELSE Return(Num(round2(gpa.v)))

(***************************************************************************)
(* Course identifiers and their order.                                     *)
(***************************************************************************)
\* ord() of the season characters: sorted() compares strings by code point.
ord(ch) == IF ch = "U" THEN 22799 ELSE IF ch = "S" THEN 26149 ELSE 31179

\* The course identifiers of the model in ascending str order ("ZZ" is in
\* no catalogue).
IdOrder == <<"A1", "B1", "C1", "ZZ">>

IdRank(id) == CHOOSE i \in DOMAIN IdOrder : IdOrder[i] = id

(***************************************************************************)
(* Category names.  A name is a str whose elements are blanks and words:   *)
(* a word stands for a run of characters without white space.              *)
(***************************************************************************)
\* The category a course gets when none is given.
Uncategorized == <<"uncategorized">>

MajorRequired == <<"major_required">>

MajorElective == <<"major_elective">>

\* The default major_categories of major_gpa.
MAJOR_CATEGORIES == {MajorRequired, MajorElective}

\* The category names of the model in ascending str order (the code points
\* of their first differing characters are U+5FC5, U+9009 and U+672A after
\* U+4E13).
CategoryOrder == <<MajorRequired, MajorElective, Uncategorized>>

CategoryRank(name) == CHOOSE i \in DOMAIN CategoryOrder : CategoryOrder[i] = name

(***************************************************************************)
(* Catalog (core.py 85-141).                                               *)
(***************************************************************************)
Course(id, type, credits, semester, category) ==
  [course_id |-> id, course_type |-> type, credits |-> credits,
   semester |-> semester, category |-> category]

\* An elective of 3 credits offered every fall, a required course of 2
\* credits tagged for the first fall, a required course of 2 credits offered
\* every spring.
CoursesA ==
  << Course("A1", "elective", 6, <<"F">>, MajorElective),
     Course("B1", "required", 4, <<"1", "F">>, MajorRequired),
     Course("C1", "required", 4, <<"S">>, Uncategorized) >>

\* A required course of 2 credits tagged for the first fall, an elective of
\* 1 credit offered every fall whose category is written with a leading
\* blank, an elective of no credit offered every spring with an empty
\* category.
CoursesB ==
  << Course("A1", "required", 4, <<"1", "F">>, MajorRequired),
     Course("B1", "elective", 2, <<"F">>, <<" ">> \o MajorElective),
     Course("C1", "elective", 0, <<"S">>, << >>) >>

\* Three required courses of 2 credits, listed against the order of their
\* identifiers: one tagged for the first fall with a leading blank, one
\* offered every spring, one tagged for the spring of a fifth year.
CoursesC ==
  << Course("C1", "required", 4, <<" ", "1", "F">>, MajorRequired),
     Course("B1", "required", 4, <<"S">>, MajorRequired),
     Course("A1", "required", 4, <<"5", "S">>, Uncategorized) >>

\* Catalog.__init__: the courses in insertion order, or the first failure.
Catalog(courses) ==
  LET dup(i) == \E j \in 1..(i - 1) : courses[j].course_id = courses[i].course_id
      bad(i) == dup(i) \/ extract_season(courses[i].semester).err # "ok"
      fails == {i \in DOMAIN courses : bad(i)}
      first == CHOOSE i \in fails : \A j \in fails : i <= j
  IN  IF fails = {} THEN Return(courses)
      ELSE IF dup(first) THEN Raise("DuplicateIdentifier")
      ELSE Raise(extract_season(courses[first].semester).err)

Catalog_get(cat, course_id) ==
  IF \A i \in DOMAIN cat : cat[i].course_id # course_id
  THEN Raise("NotFound")
  ELSE Return(cat[CHOOSE i \in DOMAIN cat : cat[i].course_id = course_id])

required_courses(cat) == SelectSeq(cat, LAMBDA c : c.course_type = "required")

\* ord() of a character of a semester tag: the blank, a digit or a season.
code_point(ch) ==
  IF ch = " " THEN 32
  ELSE IF ch \in Digits THEN 48 + (CHOOSE d \in 0..9 : DigitChars[d + 1] = ch)
  ELSE ord(ch)

RECURSIVE str_less(_, _)
\* a < b for two str: the first differing character decides, a proper
\* prefix comes first.
str_less(a, b) ==
  IF b = << >> THEN FALSE
  ELSE IF a = << >> THEN TRUE
  ELSE IF Head(a) # Head(b) THEN code_point(Head(a)) < code_point(Head(b))
  ELSE str_less(Tail(a), Tail(b))

\* The sort key of offered_in_by_type: (semester, course_id).
OfferedKeyLess(a, b) ==
  \/ str_less(a.semester, b.semester)
  \/ a.semester = b.semester /\ IdRank(a.course_id) < IdRank(b.course_id)

RECURSIVE SortOffered(_)
\* list.sort(): a stable insertion of the last element into the sorted rest.
SortOffered(cs) ==
  IF cs = << >> THEN << >>
  ELSE LET last == cs[Len(cs)]
           rest == SortOffered(SubSeq(cs, 1, Len(cs) - 1))
           n == Cardinality({i \in DOMAIN rest : ~OfferedKeyLess(last, rest[i])})
       IN  SubSeq(rest, 1, n) \o <<last>> \o SubSeq(rest, n + 1, Len(rest))

\* offered_in_by_type that leaves both lists in the order of the catalogue.
offered_in_by_type_unsorted(cat, season) ==
  LET s == strip(season)
      there == SelectSeq(cat, LAMBDA c : <<extract_season(c.semester).val>> = s)
  IN  IF Len(s) # 1 \/ s[1] \notin SeasonSet THEN Raise("InvalidSeason")
      ELSE Return([required |->
                     SelectSeq(there, LAMBDA c : c.course_type = "required"),
                   elective |->
                     SelectSeq(there, LAMBDA c : c.course_type # "required")])

\* The season is stripped before the test; a course that is not required
\* goes to the elective list.
offered_in_by_type(cat, season) ==
  LET s == strip(season)
      there == SelectSeq(cat, LAMBDA c : <<extract_season(c.semester).val>> = s)
  IN  IF Len(s) # 1 \/ s[1] \notin SeasonSet THEN Raise("InvalidSeason")
      ELSE Return([required |-> SortOffered(
                     SelectSeq(there, LAMBDA c : c.course_type = "required")),
                   elective |-> SortOffered(
                     SelectSeq(there, LAMBDA c : c.course_type # "required"))])

(***************************************************************************)
(* EnrollmentPlan (core.py 147-457).                                       *)
(***************************************************************************)
PlanItem(id, sem, gpa) ==
  [course_id |-> id, actual_semester |-> sem, gpa |-> gpa]

\* The plan after a call and how the call ended.
Outcome(e, its) == [err |-> e, items |-> its]

\* has_course that looks at the first item only.
has_course_first(its, course_id) ==
  its # << >> /\ its[1].course_id = course_id

has_course(its, course_id) ==
  \E i \in DOMAIN its : its[i].course_id = course_id

\* _get_item: the position of the first item of the course, 0 for KeyError.
get_item(its, course_id) ==
  IF has_course(its, course_id)
  THEN CHOOSE i \in DOMAIN its :
         /\ its[i].course_id = course_id
         /\ \A j \in 1..(i - 1) : its[j].course_id # course_id
  ELSE 0

RECURSIVE SumCredits(_, _)
\* sum(catalog.get(i.course_id).credits for i in its)
SumCredits(cat, its) ==
  IF its = << >> THEN 0
  ELSE SumCredits(cat, SubSeq(its, 1, Len(its) - 1))
         + Catalog_get(cat, its[Len(its)].course_id).val.credits

total_credits(cat, its) == SumCredits(cat, its)

\* semester_credits with the comparison of the filter inverted.
semester_credits_others(cat, its, actual_semester) ==
  LET r == ensure_actual_semester(actual_semester)
  IN  IF r.err # "ok" THEN r
      ELSE Return(SumCredits(cat,
             SelectSeq(its, LAMBDA i : i.actual_semester # r.val)))

semester_credits(cat, its, actual_semester) ==
  LET r == ensure_actual_semester(actual_semester)
  IN  IF r.err # "ok" THEN r
      ELSE Return(SumCredits(cat,
             SelectSeq(its, LAMBDA i : i.actual_semester = r.val)))

\* add_course without the season rule.
add_course_any_season(cat, limit, its, course_id, actual_semester) ==
  LET sem == ensure_actual_semester(actual_semester)
      c == Catalog_get(cat, course_id)
      course_season == extract_season(c.val.semester)
      target_season == season_of_actual_semester(sem.val)
  IN  IF sem.err # "ok" THEN Outcome(sem.err, its)
      ELSE IF c.err # "ok" THEN Outcome(c.err, its)
      ELSE IF has_course(its, course_id)
        THEN Outcome("DuplicateEnrollment", its)
      ELSE IF course_season.err # "ok" THEN Outcome(course_season.err, its)
      ELSE IF semester_credits(cat, its, sem.val).val + c.val.credits > limit
        THEN Outcome("CreditCapExceeded", its)
      ELSE Outcome("ok", Append(its, PlanItem(course_id, sem.val, None)))

\* add_course whose credit rule refuses a term filled exactly to the limit.
add_course_below_cap(cat, limit, its, course_id, actual_semester) ==
  LET sem == ensure_actual_semester(actual_semester)
      c == Catalog_get(cat, course_id)
      course_season == extract_season(c.val.semester)
      target_season == season_of_actual_semester(sem.val)
  IN  IF sem.err # "ok" THEN Outcome(sem.err, its)
      ELSE IF c.err # "ok" THEN Outcome(c.err, its)
      ELSE IF has_course(its, course_id)
        THEN Outcome("DuplicateEnrollment", its)
      ELSE IF course_season.err # "ok" THEN Outcome(course_season.err, its)
      ELSE IF course_season.val # target_season.val
        THEN Outcome("SeasonMismatch", its)
      ELSE IF semester_credits(cat, its, sem.val).val + c.val.credits >= limit
        THEN Outcome("CreditCapExceeded", its)
      ELSE Outcome("ok", Append(its, PlanItem(course_id, sem.val, None)))

\* add_course that creates the item with a GPA of 0.0.
add_course_graded(cat, limit, its, course_id, actual_semester) ==
  LET sem == ensure_actual_semester(actual_semester)
      c == Catalog_get(cat, course_id)
      course_season == extract_season(c.val.semester)
      target_season == season_of_actual_semester(sem.val)
  IN  IF sem.err # "ok" THEN Outcome(sem.err, its)
      ELSE IF c.err # "ok" THEN Outcome(c.err, its)
      ELSE IF has_course(its, course_id)
        THEN Outcome("DuplicateEnrollment", its)
      ELSE IF course_season.err # "ok" THEN Outcome(course_season.err, its)
      ELSE IF course_season.val # target_season.val
        THEN Outcome("SeasonMismatch", its)
      ELSE IF semester_credits(cat, its, sem.val).val + c.val.credits > limit
        THEN Outcome("CreditCapExceeded", its)
      ELSE Outcome("ok", Append(its, PlanItem(course_id, sem.val, Num(0))))

\* add_course that tests for a duplicate after the season and credit rules.
add_course_duplicate_last(cat, limit, its, course_id, actual_semester) ==
  LET sem == ensure_actual_semester(actual_semester)
      c == Catalog_get(cat, course_id)
      course_season == extract_season(c.val.semester)
      target_season == season_of_actual_semester(sem.val)
  IN  IF sem.err # "ok" THEN Outcome(sem.err, its)
      ELSE IF c.err # "ok" THEN Outcome(c.err, its)
      ELSE IF course_season.err # "ok" THEN Outcome(course_season.err, its)
      ELSE IF course_season.val # target_season.val
        THEN Outcome("SeasonMismatch", its)
      ELSE IF semester_credits(cat, its, sem.val).val + c.val.credits > limit
        THEN Outcome("CreditCapExceeded", its)
      ELSE IF has_course(its, course_id)
        THEN Outcome("DuplicateEnrollment", its)
      ELSE Outcome("ok", Append(its, PlanItem(course_id, sem.val, None)))

add_course(cat, limit, its, course_id, actual_semester) ==
  LET sem == ensure_actual_semester(actual_semester)
      c == Catalog_get(cat, course_id)
      course_season == extract_season(c.val.semester)
      target_season == season_of_actual_semester(sem.val)
  IN  IF sem.err # "ok" THEN Outcome(sem.err, its)
      ELSE IF c.err # "ok" THEN Outcome(c.err, its)
      ELSE IF has_course(its, course_id)
        THEN Outcome("DuplicateEnrollment", its)
      ELSE IF course_season.err # "ok" THEN Outcome(course_season.err, its)
      ELSE IF course_season.val # target_season.val
        THEN Outcome("SeasonMismatch", its)
      ELSE IF semester_credits(cat, its, sem.val).val + c.val.credits > limit
        THEN Outcome("CreditCapExceeded", its)
      ELSE Outcome("ok", Append(its, PlanItem(course_id, sem.val, None)))

\* Every rule of add_course that the arguments break in the plan its,
\* whether or not the call gets as far as testing it.  The season and the
\* credit rule are only defined for a valid semester and a known course.
RulesViolated(cat, limit, its, course_id, actual_semester) ==
  LET sem == strip(actual_semester)
      valid == ACTUAL_SEM_RE(sem)
      known == \E i \in DOMAIN cat : cat[i].course_id = course_id
      c == cat[CHOOSE i \in DOMAIN cat : cat[i].course_id = course_id]
      tag == strip(c.semester)
      there == SelectSeq(its, LAMBDA i : i.actual_semester = sem)
  IN  {e \in {"InvalidActualSemester"} : ~valid}
        \cup {e \in {"NotFound"} : ~known}
        \cup {e \in {"DuplicateEnrollment"} :
                \E i \in DOMAIN its : its[i].course_id = course_id}
        \cup {e \in {"SeasonMismatch"} :
                valid /\ known /\ sem[Len(sem)] # tag[Len(tag)]}
        \cup {e \in {"CreditCapExceeded"} :
                valid /\ known /\ SumCredits(cat, there) + c.credits > limit}

\* remove_course that keeps the items of the course and drops the others.
remove_course_others(its, course_id) ==
  LET kept == SelectSeq(its, LAMBDA i : i.course_id = course_id)
  IN  IF Len(kept) = Len(its) THEN Outcome("NotFound", kept)
      ELSE Outcome("ok", kept)

\* The list is rebuilt before the length test that raises.
remove_course(its, course_id) ==
  LET kept == SelectSeq(its, LAMBDA i : i.course_id # course_id)
  IN  IF Len(kept) = Len(its) THEN Outcome("NotFound", kept)
      ELSE Outcome("ok", kept)

\* set_gpa that stores the value in every item of the plan.
set_gpa_every_item(its, course_id, gpa) ==
  LET v == validate_gpa(gpa)
      i == get_item(its, course_id)
  IN  IF v.err # "ok" THEN Outcome(v.err, its)
      ELSE IF i = 0 THEN Outcome("NotFound", its)
      ELSE Outcome("ok", [n \in DOMAIN its |-> [its[n] EXCEPT !.gpa = v.val]])

\* set_gpa that stores the value before it validates it.
set_gpa_store_first(its, course_id, gpa) ==
  LET v == validate_gpa(gpa)
      i == get_item(its, course_id)
  IN  IF i = 0 THEN Outcome("NotFound", its)
      ELSE IF v.err # "ok" THEN Outcome(v.err, [its EXCEPT ![i].gpa = gpa])
      ELSE Outcome("ok", [its EXCEPT ![i].gpa = v.val])

\* self._get_item(course_id).gpa = validate_gpa(gpa): Python evaluates the
\* right-hand side before the target of the assignment.
set_gpa(its, course_id, gpa) ==
  LET v == validate_gpa(gpa)
      i == get_item(its, course_id)
  IN  IF v.err # "ok" THEN Outcome(v.err, its)
      ELSE IF i = 0 THEN Outcome("NotFound", its)
      ELSE Outcome("ok", [its EXCEPT ![i].gpa = v.val])

\* The sort key without the season: the course identifier alone.
RequiredKeyLess_by_id(a, b) == IdRank(a.course_id) < IdRank(b.course_id)

\* The sort key of auto_add_all_required: (extract_season(semester), id).
RequiredKeyLess(a, b) ==
  LET sa == ord(extract_season(a.semester).val)
      sb == ord(extract_season(b.semester).val)
  IN  sa < sb \/ (sa = sb /\ IdRank(a.course_id) < IdRank(b.course_id))

RECURSIVE SortRequired(_)
\* sorted(): a stable insertion of the last element into the sorted rest.
SortRequired(cs) ==
  IF cs = << >> THEN << >>
  ELSE LET last == cs[Len(cs)]
           rest == SortRequired(SubSeq(cs, 1, Len(cs) - 1))
           n == Cardinality({i \in DOMAIN rest : ~RequiredKeyLess(last, rest[i])})
       IN  SubSeq(rest, 1, n) \o <<last>> \o SubSeq(rest, n + 1, Len(rest))

\* AutoTarget without the fall back to year 4 for a semester that is not in
\* PLAN_SEMESTERS.
AutoTarget_as_tagged(c) ==
  IF ACTUAL_SEM_RE(c.semester) THEN c.semester
  ELSE <<"4", extract_season(c.semester).val>>

\* The semester auto_add_all_required hands to add_course for course c.
AutoTarget(c) ==
  LET fourth(season) == IF season = "F" THEN <<"4", "F">>
                        ELSE IF season = "S" THEN <<"4", "S">>
                        ELSE <<"4", "U">>
      target == IF ACTUAL_SEM_RE(c.semester) THEN c.semester
                ELSE fourth(extract_season(c.semester).val)
  IN  IF target \notin PlanSemesterSet THEN fourth(target[Len(target)])
      ELSE target

RECURSIVE AutoAddLoop(_, _, _, _)
\* The for loop of auto_add_all_required over the rest of the sorted list.
AutoAddLoop(cat, limit, its, required) ==
  IF required = << >> THEN Outcome("ok", its)
  ELSE LET c == Head(required)
           r == add_course(cat, limit, its, c.course_id, AutoTarget(c))
       IN  IF has_course(its, c.course_id)
             THEN AutoAddLoop(cat, limit, its, Tail(required))
           ELSE IF r.err # "ok" THEN r
           ELSE AutoAddLoop(cat, limit, r.items, Tail(required))

\* auto_add_all_required that stops after the first course of the sorted
\* list.
auto_add_first_required(cat, limit, its) ==
  AutoAddLoop(cat, limit, its,
              SubSeq(SortRequired(required_courses(cat)), 1, 1))

auto_add_all_required(cat, limit, its) ==
  AutoAddLoop(cat, limit, its, SortRequired(required_courses(cat)))

(***************************************************************************)
(* Queries of the plan (core.py 164-395, 449-457).                         *)
(***************************************************************************)
elective_credits(cat, its) ==
  SumCredits(cat, SelectSeq(its, LAMBDA i :
    Catalog_get(cat, i.course_id).val.course_type = "elective"))

RECURSIVE SortById(_)
\* sorted(missing, key=course_id): a stable insertion of the last element.
SortById(cs) ==
  IF cs = << >> THEN << >>
  ELSE LET last == cs[Len(cs)]
           rest == SortById(SubSeq(cs, 1, Len(cs) - 1))
           n == Cardinality({i \in DOMAIN rest :
                  IdRank(rest[i].course_id) <= IdRank(last.course_id)})
       IN  SubSeq(rest, 1, n) \o <<last>> \o SubSeq(rest, n + 1, Len(rest))

\* required_missing that keeps the order of the catalogue.
required_missing_unsorted(cat, its) ==
  SelectSeq(required_courses(cat), LAMBDA c : ~has_course(its, c.course_id))

required_missing(cat, its) ==
  SortById(SelectSeq(required_courses(cat),
                     LAMBDA c : ~has_course(its, c.course_id)))

RECURSIVE TotalW(_, _)
\* total_w += float(i.gpa) * c.credits over its, in thousandths of a grade
\* point times half credits; NaN once a GPA is NaN.
TotalW(cat, its) ==
  IF its = << >> THEN Num(0)
  ELSE LET rest == TotalW(cat, SubSeq(its, 1, Len(its) - 1))
           i == its[Len(its)]
       IN  IF rest.k = "nan" \/ i.gpa.k = "nan" THEN NaN
           ELSE Num(rest.v + i.gpa.v * Catalog_get(cat, i.course_id).val.credits)

\* round(total_w / total_c, 3) for total_c > 0, in thousandths: the nearest
\* thousandth of a quotient that is not half way between two (the direction
\* of a half depends on the binary value of the float); round(nan, 3) is nan.
round3(total_w, total_c) ==
  IF total_w.k = "nan" THEN NaN
  ELSE Num((2 * total_w.v + total_c) \div (2 * total_c))

\* sum(1 for i in its if i.gpa is None)
Missing(its) == Len(SelectSeq(its, LAMBDA i : i.gpa = None))

\* semester_gpa that counts the ungraded items of the whole plan.
semester_gpa_all_missing(cat, its, actual_semester) ==
  LET r == ensure_actual_semester(actual_semester)
      term_items == SelectSeq(its, LAMBDA i : i.actual_semester = r.val)
      missing == Missing(its)
      total_w == TotalW(cat, term_items)
      total_c == SumCredits(cat, term_items)
  IN  IF r.err # "ok" THEN r
      ELSE IF term_items = << >> THEN Return(<<None, 0>>)
      ELSE IF missing > 0 THEN Return(<<None, missing>>)
      ELSE IF total_c <= 0 THEN Return(<<None, 0>>)
      ELSE Return(<<round3(total_w, total_c), 0>>)

\* val is the pair (average or None, number of ungraded items).
semester_gpa(cat, its, actual_semester) ==
  LET r == ensure_actual_semester(actual_semester)
      term_items == SelectSeq(its, LAMBDA i : i.actual_semester = r.val)
      missing == Missing(term_items)
      total_w == TotalW(cat, term_items)
      total_c == SumCredits(cat, term_items)
  IN  IF r.err # "ok" THEN r
      ELSE IF term_items = << >> THEN Return(<<None, 0>>)
      ELSE IF missing > 0 THEN Return(<<None, missing>>)
      ELSE IF total_c <= 0 THEN Return(<<None, 0>>)
      ELSE Return(<<round3(total_w, total_c), 0>>)

\* overall_gpa that divides by the number of items, not by their credits.
overall_gpa_unweighted(cat, its) ==
  LET missing == Missing(its)
      ones == [n \in DOMAIN cat |-> [cat[n] EXCEPT !.credits = 1]]
      total_w == TotalW(ones, its)
      total_c == SumCredits(cat, its)
  IN  IF its = << >> THEN <<None, 0>>
      ELSE IF missing > 0 THEN <<None, missing>>
      ELSE IF total_c <= 0 THEN <<None, 0>>
      ELSE <<round3(total_w, Len(its)), 0>>

overall_gpa(cat, its) ==
  LET missing == Missing(its)
      total_w == TotalW(cat, its)
      total_c == SumCredits(cat, its)
  IN  IF its = << >> THEN <<None, 0>>
      ELSE IF missing > 0 THEN <<None, missing>>
      ELSE IF total_c <= 0 THEN <<None, 0>>
      ELSE <<round3(total_w, total_c), 0>>

\* (c.category or "uncategorized").strip() in major_categories, with the
\* default major_categories.
major_gpa(cat, its) ==
  LET category(i) == Catalog_get(cat, i.course_id).val.category
      major_items == SelectSeq(its, LAMBDA i :
        strip(IF category(i) = << >> THEN Uncategorized ELSE category(i))
          \in MAJOR_CATEGORIES)
      missing == Missing(major_items)
      total_w == TotalW(cat, major_items)
      total_c == SumCredits(cat, major_items)
  IN  IF major_items = << >> THEN <<None, 0>>
      ELSE IF missing > 0 THEN <<None, missing>>
      ELSE IF total_c <= 0 THEN <<None, 0>>
      ELSE <<round3(total_w, total_c), 0>>

RECURSIVE int(_)
\* int() of a str of decimal digits.
int(s) ==
  IF s = << >> THEN 0
  ELSE 10 * int(SubSeq(s, 1, Len(s) - 1))
         + (CHOOSE d \in 0..9 : DigitChars[d + 1] = s[Len(s)])

\* yearly_gpa that takes the first digit of the semester for the year.
yearly_gpa_first_digit(cat, its) ==
  LET year(i) == int(SubSeq(i.actual_semester, 1, 1))
      years == {year(its[n]) : n \in DOMAIN its}
      bucket(y) == SelectSeq(its, LAMBDA i : year(i) = y)
  IN  [y \in years |->
         IF Missing(bucket(y)) > 0 THEN <<None, Missing(bucket(y))>>
         ELSE IF SumCredits(cat, bucket(y)) <= 0 THEN <<None, 0>>
         ELSE <<round3(TotalW(cat, bucket(y)), SumCredits(cat, bucket(y))), 0>>]

\* The dict of yearly_gpa: a pair for every year that has an item; the year
\* is int(sem[:-1]).
yearly_gpa(cat, its) ==
  LET year(i) == int(SubSeq(i.actual_semester, 1, Len(i.actual_semester) - 1))
      years == {year(its[n]) : n \in DOMAIN its}
      bucket(y) == SelectSeq(its, LAMBDA i : year(i) = y)
  IN  [y \in years |->
         IF Missing(bucket(y)) > 0 THEN <<None, Missing(bucket(y))>>
         ELSE IF SumCredits(cat, bucket(y)) <= 0 THEN <<None, 0>>
         ELSE <<round3(TotalW(cat, bucket(y)), SumCredits(cat, bucket(y))), 0>>]

\* validate: the list of messages, a message being what it is about: a
\* required course that is missing, or the elective credits the plan has
\* and needs.
validate(cat, requirement, its) ==
  LET missing == required_missing(cat, its)
      errors == [n \in DOMAIN missing |->
                   [kind |-> "missing_required",
                    course_id |-> missing[n].course_id, have |-> 0, need |-> 0]]
  IN  IF elective_credits(cat, its) < requirement
      THEN Append(errors, [kind |-> "elective_short", course_id |-> "",
                           have |-> elective_credits(cat, its),
                           need |-> requirement])
      ELSE errors

\* grouped with the twelve semesters of PLAN_SEMESTERS as its only keys.
grouped_plan_only(cat, its) ==
  [sem \in PlanSemesterSet |->
     SortById([n \in DOMAIN SelectSeq(its, LAMBDA i : i.actual_semester = sem) |->
       Catalog_get(cat, SelectSeq(its, LAMBDA i : i.actual_semester = sem)[n]
                          .course_id).val])]

\* The dict of grouped: a key for every semester of PLAN_SEMESTERS and for
\* every other semester of an item, with the courses of the semester sorted
\* by identifier.
grouped(cat, its) ==
  [sem \in PlanSemesterSet \cup {its[n].actual_semester : n \in DOMAIN its} |->
     SortById([n \in DOMAIN SelectSeq(its, LAMBDA i : i.actual_semester = sem) |->
       Catalog_get(cat, SelectSeq(its, LAMBDA i : i.actual_semester = sem)[n]
                          .course_id).val])]

\* (c.category or "uncategorized").strip() or "uncategorized"
category_of(c) ==
  LET given == IF c.category = << >> THEN Uncategorized ELSE c.category
  IN  IF strip(given) = << >> THEN Uncategorized ELSE strip(given)

RECURSIVE ProgressLoop(_, _, _)
\* The loop of credit_progress_by_category over the items: a row is made at
\* the end of the dict for a category that has none, then selected grows and
\* completed grows if the item has a GPA.
ProgressLoop(cat, its, progress) ==
  IF its = << >> THEN progress
  ELSE LET item == Head(its)
           c == Catalog_get(cat, item.course_id).val
           key == category_of(c)
           rows == IF \E n \in DOMAIN progress : progress[n].category = key
                   THEN progress
                   ELSE Append(progress, [category |-> key, required |-> 0,
                                          selected |-> 0, completed |-> 0])
           n == CHOOSE k \in DOMAIN rows : rows[k].category = key
           done == IF item.gpa # None THEN c.credits ELSE 0
       IN  ProgressLoop(cat, Tail(its),
             [rows EXCEPT ![n].selected = @ + c.credits,
                          ![n].completed = @ + done])

\* credit_progress_by_category that starts from no row: the categories
\* declared in requirements are not seeded.
credit_progress_by_category_unseeded(cat, its, requirements) ==
  ProgressLoop(cat, its, << >>)

\* requirements is a dict, written as the sequence of its (key, value)
\* pairs; the result is the dict progress as the sequence of its rows.
\* Numbers are half credits, which round(x, 3) leaves as they are.
credit_progress_by_category(cat, its, requirements) ==
  ProgressLoop(cat, its,
    [n \in DOMAIN requirements |->
       [category |-> requirements[n][1], required |-> requirements[n][2],
        selected |-> 0, completed |-> 0]])

\* credit_progress_rows without the max() of remaining.
credit_progress_rows_no_max(cat, its, requirements) ==
  LET prog == credit_progress_by_category(cat, its, requirements)
      declared == {requirements[n][1] : n \in DOMAIN requirements}
      ordered == [n \in DOMAIN requirements |-> requirements[n][1]]
      extra == SelectSeq(CategoryOrder, LAMBDA k :
                 k \notin declared /\ \E n \in DOMAIN prog : prog[n].category = k)
      row(key) ==
        LET p == prog[CHOOSE n \in DOMAIN prog : prog[n].category = key]
        IN  [category |-> key, required |-> p.required,
             selected |-> p.selected, completed |-> p.completed,
             remaining |-> p.required - p.completed]
  IN  [n \in 1..(Len(ordered) + Len(extra)) |-> row((ordered \o extra)[n])]

\* The rows in the order of the keys of requirements, then the other
\* categories sorted.
credit_progress_rows(cat, its, requirements) ==
  LET prog == credit_progress_by_category(cat, its, requirements)
      declared == {requirements[n][1] : n \in DOMAIN requirements}
      ordered == [n \in DOMAIN requirements |-> requirements[n][1]]
      extra == SelectSeq(CategoryOrder, LAMBDA k :
                 k \notin declared /\ \E n \in DOMAIN prog : prog[n].category = k)
      row(key) ==
        LET p == prog[CHOOSE n \in DOMAIN prog : prog[n].category = key]
        IN  [category |-> key, required |-> p.required,
             selected |-> p.selected, completed |-> p.completed,
             remaining |-> IF p.required - p.completed > 0
                           THEN p.required - p.completed ELSE 0]
  IN  [n \in 1..(Len(ordered) + Len(extra)) |-> row((ordered \o extra)[n])]

(***************************************************************************)
(* Inputs.                                                                 *)
(***************************************************************************)
Sem(year, season) == <<DigitChars[year + 1], season>>

\* Course identifiers handed to the operations: the catalogue's and one
\* unknown.
CourseIdInputs == {IdOrder[i] : i \in DOMAIN IdOrder}

\* Semesters handed to add_course: every year+season up to MaxYear, one
\* padded with white space and one without a year.
ActualSemesterInputs ==
  {Sem(y, s) : y \in 1..MaxYear, s \in SeasonSet}
    \cup { <<" ", "1", "F", " ">>, <<"F">> }

\* Values handed to set_gpa: None, -0.001, 3.996, 4.001, NaN and a text that
\* is no number.
GpaInputs == {None, Num(0 - 1), Num(3996), Num(4001), NaN, Text}

Catalogs == {CoursesA}

\* 3.0 credits per term.
TermLimits == {6}

ElectiveRequirements == {6}

(***************************************************************************)
(* The session: an empty plan over a catalogue, then any operation.       *)
(***************************************************************************)
Init ==
  /\ catalog \in Catalogs
  /\ term_credit_limit \in TermLimits
  /\ elective_credit_requirement \in ElectiveRequirements
  /\ items = << >>
  /\ op = "init"
  /\ result = "ok"
  /\ violated = {}

Config == <<catalog, term_credit_limit, elective_credit_requirement>>

AddCourseCall(id, sem) ==
  LET r == add_course(catalog, term_credit_limit, items, id, sem)
  IN  /\ items' = r.items
      /\ op' = "add_course"
      /\ result' = r.err
      /\ violated' = RulesViolated(catalog, term_credit_limit, items, id, sem)
      /\ UNCHANGED Config

AddCourse == \E id \in CourseIdInputs, sem \in ActualSemesterInputs :
               AddCourseCall(id, sem)

RemoveCourseCall(id) ==
  LET r == remove_course(items, id)
  IN  /\ items' = r.items
      /\ op' = "remove_course"
      /\ result' = r.err
      /\ violated' = {}
      /\ UNCHANGED Config

RemoveCourse == \E id \in CourseIdInputs : RemoveCourseCall(id)

SetGpaCall(id, gpa) ==
  LET r == set_gpa(items, id, gpa)
  IN  /\ items' = r.items
      /\ op' = "set_gpa"
      /\ result' = r.err
      /\ violated' = {}
      /\ UNCHANGED Config

SetGpa == \E id \in CourseIdInputs, gpa \in GpaInputs : SetGpaCall(id, gpa)

AutoAddAllRequired ==
  LET r == auto_add_all_required(catalog, term_credit_limit, items)
  IN  /\ items' = r.items
      /\ op' = "auto_add_all_required"
      /\ result' = r.err
      /\ violated' = {}
      /\ UNCHANGED Config

Next == AddCourse \/ RemoveCourse \/ SetGpa \/ AutoAddAllRequired

Spec == Init /\ [][Next]_vars

(***************************************************************************)
(* Configuration documents (core.py 553-617).                              *)
(***************************************************************************)
\* load_from_config on a parsed document: the catalogue is built first, then
\* every item is checked (semester, GPA, catalogue lookup) and appended
\* without going through add_course.  val is <<catalog, limit, requirement,
\* items>>.
load_from_config(data) ==
  LET cat == Catalog(data.courses)
      raw == data.plan.items
      check(i) ==
        LET sem == ensure_actual_semester(raw[i].actual_semester)
            gpa == validate_gpa(raw[i].gpa)
            c == Catalog_get(cat.val, raw[i].course_id)
        IN  IF sem.err # "ok" THEN sem.err
            ELSE IF gpa.err # "ok" THEN gpa.err
            ELSE c.err
      fails == {i \in DOMAIN raw : check(i) # "ok"}
      first == CHOOSE i \in fails : \A j \in fails : i <= j
      loaded == [i \in DOMAIN raw |->
                   PlanItem(raw[i].course_id,
                            ensure_actual_semester(raw[i].actual_semester).val,
                            validate_gpa(raw[i].gpa).val)]
  IN  IF cat.err # "ok" THEN Raise(cat.err)
      ELSE IF fails # {} THEN Raise(check(first))
      ELSE Return(<<cat.val, data.plan.term_credit_limit,
                    data.plan.elective_credit_requirement, loaded>>)

\* save_to_config that writes every item without its GPA.
save_to_config_no_gpa(cat, limit, requirement, its) ==
  [courses |-> cat,
   plan |-> [term_credit_limit |-> limit,
             elective_credit_requirement |-> requirement,
             items |-> [n \in DOMAIN its |-> [its[n] EXCEPT !.gpa = None]]]]

\* save_to_config: the document written, as json.load reads it back.  asdict
\* gives a course and an item field by field; json writes None as null, a
\* float by its repr, which reads back as the same float, and NaN as NaN.
save_to_config(cat, limit, requirement, its) ==
  [courses |-> [n \in DOMAIN cat |->
                  Course(cat[n].course_id, cat[n].course_type, cat[n].credits,
                         cat[n].semester, cat[n].category)],
   plan |-> [term_credit_limit |-> limit,
             elective_credit_requirement |-> requirement,
             items |-> [n \in DOMAIN its |->
                          PlanItem(its[n].course_id, its[n].actual_semester,
                                   its[n].gpa)]]]

\* Plan items as a document may hold them: a plain one, one in the wrong
\* season with a GPA of 3.504, one padded and graded NaN, and one of an
\* unknown course with an invalid semester and a GPA of 4.001.
LoadItemInputs ==
  { PlanItem("A1", <<"1", "F">>, None),
    PlanItem("A1", <<"1", "S">>, Num(3504)),
    PlanItem("B1", <<" ", "1", "F">>, NaN),
    PlanItem("ZZ", <<"0", "F">>, Num(4001)) }

RECURSIVE SeqsUpTo(_, _)
\* The sequences over S of length at most n.
SeqsUpTo(S, n) ==
  IF n = 0 THEN {<< >>}
  ELSE LET shorter == SeqsUpTo(S, n - 1)
       IN  shorter \cup {Append(q, x) : q \in shorter, x \in S}

Documents ==
  { [courses |-> cs,
     plan |-> [term_credit_limit |-> l, elective_credit_requirement |-> e,
               items |-> its]] :
      cs \in Catalogs, l \in TermLimits, e \in ElectiveRequirements,
      its \in SeqsUpTo(LoadItemInputs, MaxLoadItems) }

\* The session is built from a document (gui.py 448).  Opening another
\* document later (gui.py 644-660) replaces catalogue and plan by values
\* that depend on that document alone, so it is a new session; a failed
\* load leaves the session as it was (gui.py 652-656).
LoadFromConfig ==
  \E data \in Documents :
    LET r == load_from_config(data)
    IN  /\ op = "init"
        /\ op' = "load_from_config"
        /\ result' = r.err
        /\ violated' = {}
        /\ IF r.err = "ok"
           THEN /\ catalog' = r.val[1]
                /\ term_credit_limit' = r.val[2]
                /\ elective_credit_requirement' = r.val[3]
                /\ items' = r.val[4]
           ELSE UNCHANGED <<Config, items>>

NextLoad == Next \/ LoadFromConfig

SpecLoad == Init /\ [][NextLoad]_vars

(***************************************************************************)
(* Catalogues built from course lists, and their offers by season.         *)
(***************************************************************************)
\* Courses for the lists handed to Catalog(): identifiers that repeat with
\* other fields, tags with and without year, one padded, one with a year of
\* two digits, one with a leading zero and one without season.
CoursePool ==
  { Course("A1", "required", 4, <<"1", "F">>, MajorRequired),
    Course("A1", "elective", 6, <<"S">>, MajorElective),
    Course("A1", "required", 4, <<"0", "F">>, MajorRequired),
    Course("B1", "required", 2, <<"1", "0", "F">>, MajorRequired),
    Course("B1", "elective", 2, <<"F">>, MajorElective),
    Course("C1", "required", 4, <<" ", "1", "F">>, Uncategorized),
    Course("C1", "elective", 4, <<"F">>, << >>),
    Course("ZZ", "elective", 4, <<"1", "X">>, Uncategorized) }

CourseLists == SeqsUpTo(CoursePool, MaxCourses)

\* Seasons handed to offered_in_by_type: the three seasons, one with a
\* leading blank, a semester with a year and the empty str.
SeasonInputs ==
  { <<"F">>, <<"S">>, <<"U">>, <<" ", "F">>, <<"1", "F">>, << >> }

\* The catalogue of the session is built from a course list (core.py 588);
\* a list that Catalog() refuses leaves the session as it was.
NewCatalog ==
  \E courses \in CourseLists :
    LET r == Catalog(courses)
    IN  /\ op = "init"
        /\ op' = "Catalog"
        /\ result' = r.err
        /\ catalog' = IF r.err = "ok" THEN r.val ELSE catalog
        /\ UNCHANGED <<term_credit_limit, elective_credit_requirement,
                       items, violated>>

OfferedInByType ==
  \E season \in SeasonInputs :
    /\ op' = "offered_in_by_type"
    /\ result' = offered_in_by_type(catalog, season).err
    /\ UNCHANGED <<Config, items, violated>>

NextCatalog == NewCatalog \/ OfferedInByType

SpecCatalog == Init /\ [][NextCatalog]_vars

(***************************************************************************)
(* A session over the catalogue CoursesB whose courses get two different   *)
(* valid grades, in terms of a one-digit and of a two-digit year.          *)
(***************************************************************************)
\* Semesters handed to add_course: the fall of year 1 and of year 12, the
\* spring of year 1.
TermInputs == { <<"1", "F">>, <<"1", "2", "F">>, <<"1", "S">> }

\* Values handed to set_gpa: None, 3.504, 3.996 and NaN.
GradeInputs == {None, Num(3504), Num(3996), NaN}

\* The requirements handed to the credit progress queries: none, and 1.0
\* credit of major required courses, 4.0 uncategorized credits and 2.0
\* credits under the major elective name written with a leading blank.
RequirementInputs ==
  { << >>,
    << <<MajorRequired, 2>>, <<Uncategorized, 8>>,
       << <<" ">> \o MajorElective, 4>> >> }

InitGraded ==
  /\ catalog = CoursesB
  /\ term_credit_limit \in TermLimits
  /\ elective_credit_requirement \in ElectiveRequirements
  /\ items = << >>
  /\ op = "init"
  /\ result = "ok"
  /\ violated = {}

AddCourseInTerm == \E id \in CourseIdInputs, sem \in TermInputs :
                     AddCourseCall(id, sem)

SetGrade == \E id \in CourseIdInputs, gpa \in GradeInputs : SetGpaCall(id, gpa)

NextGraded == AddCourseInTerm \/ RemoveCourse \/ SetGrade

SpecGraded == InitGraded /\ [][NextGraded]_vars

(***************************************************************************)
(* A session over CoursesA or CoursesC in which the required courses are   *)
(* added by hand or all at once, and the plan is validated.                *)
(***************************************************************************)
RequiredCatalogs == {CoursesA, CoursesC}

\* Semesters handed to add_course: the fall and the spring of years 1 and 4.
RequiredTermInputs ==
  { <<"1", "F">>, <<"4", "F">>, <<"1", "S">>, <<"4", "S">> }

\* Values handed to set_gpa: None and 3.996.
RequiredGradeInputs == {None, Num(3996)}

InitRequired ==
  /\ catalog \in RequiredCatalogs
  /\ term_credit_limit \in TermLimits
  /\ elective_credit_requirement \in ElectiveRequirements
  /\ items = << >>
  /\ op = "init"
  /\ result = "ok"
  /\ violated = {}

AddRequiredByHand == \E id \in CourseIdInputs, sem \in RequiredTermInputs :
                       AddCourseCall(id, sem)

SetRequiredGrade == \E id \in CourseIdInputs, gpa \in RequiredGradeInputs :
                      SetGpaCall(id, gpa)

\* validate() returns its list and assigns nothing.
Validate ==
  /\ op' = "validate"
  /\ result' = "ok"
  /\ violated' = {}
  /\ UNCHANGED <<Config, items>>

NextRequired ==
  \/ AddRequiredByHand
  \/ RemoveCourse
  \/ SetRequiredGrade
  \/ AutoAddAllRequired
  \/ Validate

SpecRequired == InitRequired /\ [][NextRequired]_vars

(***************************************************************************)
(* Properties.                                                             *)
(***************************************************************************)
\* The course identifiers of the session's catalogue.
CatalogIds == {catalog[i].course_id : i \in DOMAIN catalog}

\* The course of an identifier of the catalogue.
CourseOf(id) == catalog[CHOOSE i \in DOMAIN catalog : catalog[i].course_id = id]

\* The season a semester tag names: the one season character in it.
SeasonIn(tag) == CHOOSE s \in SeasonSet : \E i \in DOMAIN tag : tag[i] = s

\* A year without leading zero followed by one season and nothing else.
IsYearSeason(s) ==
  /\ Len(s) >= 2
  /\ s[Len(s)] \in SeasonSet
  /\ s[1] \in NonZeroDigits
  /\ \A i \in 1..(Len(s) - 1) : s[i] \in Digits

\* The credits of the items of the plan scheduled in the semester sem.
CreditsIn(sem) ==
  SumCredits(catalog, SelectSeq(items, LAMBDA i : i.actual_semester = sem))

Enrolled(id) == \E i \in DOMAIN items : items[i].course_id = id

\* C1: in every state reachable from an empty plan by add_course,
\* remove_course, set_gpa and auto_add_all_required, successful or failing,
\* the plan holds at most one PlanItem per course id.
C1_OneItemPerCourse ==
  \A i, j \in DOMAIN items :
    i # j => items[i].course_id # items[j].course_id

\* A second add_course of an enrolled course has just been refused in a plan
\* of two courses.
C1_Witness ==
  /\ op = "add_course"
  /\ result = "DuplicateEnrollment"
  /\ Len(items) >= 2

\* C2: in every state reachable from an empty plan by the four operations,
\* the credits scheduled in any actual semester do not exceed
\* term_credit_limit.
C2_CreditCap ==
  \A i \in DOMAIN items :
    CreditsIn(items[i].actual_semester) <= term_credit_limit

\* An add_course has just been refused for the credit cap alone, in a plan
\* with a semester filled exactly to the limit.
C2_Witness ==
  /\ op = "add_course"
  /\ result = "CreditCapExceeded"
  /\ violated = {"CreditCapExceeded"}
  /\ \E i \in DOMAIN items :
       CreditsIn(items[i].actual_semester) = term_credit_limit

\* C3: in every state reachable from an empty plan by the four operations,
\* every item's actual_semester is a strict year+season string whose season
\* is the season of its course's program semester tag.
C3_SeasonMatch ==
  \A i \in DOMAIN items :
    /\ IsYearSeason(items[i].actual_semester)
    /\ items[i].actual_semester[Len(items[i].actual_semester)]
         = SeasonIn(CourseOf(items[i].course_id).semester)

\* An add_course into the wrong season has just been refused, and the plan
\* holds a course enrolled in another year than the year of its tag.
C3_Witness ==
  /\ op = "add_course"
  /\ result = "SeasonMismatch"
  /\ \E i \in DOMAIN items :
       /\ items[i].course_id = "B1"
       /\ items[i].actual_semester = <<"2", "F">>

\* The conditions of a successful add_course(id, sem), on the semester sem
\* as given.
AddAllowed(id, sem) ==
  /\ IsYearSeason(sem)
  /\ id \in CatalogIds
  /\ ~Enrolled(id)
  /\ sem[Len(sem)] = SeasonIn(CourseOf(id).semester)
  /\ CreditsIn(sem) + CourseOf(id).credits <= term_credit_limit

\* C4 as stated: in every state, add_course(id, sem) succeeds if and only if
\* sem matches the strict year+season grammar, id is in the catalogue and
\* not in the plan, the seasons agree and the credits fit (equality
\* allowed); on success the items are the previous items followed by a new
\* ungraded item (id, sem).
C4_AddCourseAsGiven ==
  \A id \in CourseIdInputs, sem \in ActualSemesterInputs :
    LET r == add_course(catalog, term_credit_limit, items, id, sem)
    IN  /\ (r.err = "ok") <=> AddAllowed(id, sem)
        /\ r.err = "ok" => r.items = Append(items, PlanItem(id, sem, None))

\* C4 amended: the same with sem taken after surrounding white space has
\* been stripped, in the conditions and in the new item.
C4_AddCourseStripped ==
  \A id \in CourseIdInputs, sem \in ActualSemesterInputs :
    LET r == add_course(catalog, term_credit_limit, items, id, sem)
    IN  /\ (r.err = "ok") <=> AddAllowed(id, strip(sem))
        /\ r.err = "ok" =>
             r.items = Append(items, PlanItem(id, strip(sem), None))

\* add_course has just appended the course tagged for the first fall to the
\* second fall of a plan that held a course already: the year of the tag is
\* ignored and the new item is ungraded.
C4_Witness ==
  /\ op = "add_course"
  /\ result = "ok"
  /\ Len(items) >= 2
  /\ items[Len(items)] = PlanItem("B1", <<"2", "F">>, None)

\* C5: every failing call of add_course, remove_course or set_gpa leaves the
\* item sequence (course ids, semesters and GPAs, in order) as it was.
C5_FailureKeepsItems ==
  [][(op' \in {"add_course", "remove_course", "set_gpa"} /\ result' # "ok")
       => items' = items]_vars

\* set_gpa has just been refused for an invalid value in a plan that holds a
\* graded and an ungraded course.
C5_Witness ==
  /\ op = "set_gpa"
  /\ result = "InvalidGpa"
  /\ \E i, j \in DOMAIN items : items[i].gpa = None /\ items[j].gpa # None

\* C6: a failing auto_add_all_required makes no partial mutation: the items
\* after the failed call are the items before it.
C6_AutoAddAllOrNothing ==
  [][(op' = "auto_add_all_required" /\ result' # "ok")
       => items' = items]_vars

\* The state of a course in a plan: absent, ungraded or graded.
CourseState(its, id) ==
  IF \A i \in DOMAIN its : its[i].course_id # id THEN "absent"
  ELSE IF \E i \in DOMAIN its : its[i].course_id = id /\ its[i].gpa = None
    THEN "ungraded"
  ELSE "graded"

\* The state changes of section 4.2.
StateChangesAsGiven ==
  { <<"absent", "ungraded">>, <<"ungraded", "graded">>,
    <<"ungraded", "absent">>, <<"graded", "absent">> }

\* C7 as stated: per course id an operation leaves the state or moves it
\* absent -> ungraded, ungraded -> graded or enrolled -> absent, and nothing
\* else.
C7_StateChangesAsGiven ==
  [][\A id \in CourseIdInputs :
       \/ CourseState(items', id) = CourseState(items, id)
       \/ <<CourseState(items, id), CourseState(items', id)>>
            \in StateChangesAsGiven
    ]_vars

\* C7 amended: the same changes and graded -> ungraded, which only set_gpa
\* makes; no operation moves a course from absent directly to graded.
C7_StateChanges ==
  [][\A id \in CourseIdInputs :
       \/ CourseState(items', id) = CourseState(items, id)
       \/ <<CourseState(items, id), CourseState(items', id)>>
            \in StateChangesAsGiven
       \/ /\ CourseState(items, id) = "graded"
          /\ CourseState(items', id) = "ungraded"
          /\ op' = "set_gpa"
    ]_vars

\* set_gpa has just succeeded with an absent value (a present one would
\* leave a graded course): every course of the plan is ungraded.
C7_Witness ==
  /\ op = "set_gpa"
  /\ result = "ok"
  /\ items # << >>
  /\ \A i \in DOMAIN items : items[i].gpa = None

\* The steps of add_course in the order of section 4.2.
RuleOrder ==
  <<"InvalidActualSemester", "NotFound", "DuplicateEnrollment",
    "SeasonMismatch", "CreditCapExceeded">>

\* The earliest rule of RuleOrder in a set of rules, "ok" for no rule.
Earliest(rules) ==
  IF rules = {} THEN "ok"
  ELSE RuleOrder[CHOOSE i \in DOMAIN RuleOrder :
                   /\ RuleOrder[i] \in rules
                   /\ \A j \in 1..(i - 1) : RuleOrder[j] \notin rules]

\* C8: the failure add_course reports is that of the earliest step its
\* arguments violate, in the order invalid semester, NotFound,
\* DuplicateEnrollment, SeasonMismatch, CreditCapExceeded.
C8_EarliestFailure ==
  op = "add_course" => result = Earliest(violated)

\* An enrolled course has just been added again, into a term of the wrong
\* season or into a full term, and DuplicateEnrollment was reported.
C8_Witness ==
  /\ op = "add_course"
  /\ result = "DuplicateEnrollment"
  /\ violated \in { {"DuplicateEnrollment", "SeasonMismatch"},
                   {"DuplicateEnrollment", "CreditCapExceeded"} }

\* A value set_gpa must refuse: present and no number in [0, 4].
InvalidGpaValue(gpa) ==
  gpa # None /\ ~(gpa.k = "num" /\ gpa.v >= 0 /\ gpa.v <= 4000)

\* C9: set_gpa on a course that is not enrolled fails with NotFound for every
\* value, and InvalidGpa is reported only for an enrolled course and a value
\* that is present and no number in [0, 4].
C9_NotEnrolledIsNotFound ==
  [][\A id \in CourseIdInputs, gpa \in GpaInputs :
       SetGpaCall(id, gpa) =>
         /\ ~Enrolled(id) => result' = "NotFound"
         /\ result' = "InvalidGpa" => Enrolled(id) /\ InvalidGpaValue(gpa)
    ]_vars

\* C10: in every state reachable by add_course, remove_course, set_gpa,
\* auto_add_all_required and load_from_config, each item's gpa is absent or
\* a whole number of hundredths between 0.00 and 4.00.
C10_GpaRange ==
  \A i \in DOMAIN items :
    \/ items[i].gpa = None
    \/ /\ items[i].gpa.k = "num"
       /\ items[i].gpa.v \in 0..4000
       /\ items[i].gpa.v % 10 = 0

\* C11: in every reachable plan, for every course not enrolled and every
\* semester, when add_course(id, sem) succeeds, remove_course(id) on the
\* plan it leaves succeeds too and leaves a plan with the total_credits()
\* and the has_course(id) the plan had before the add.
C11_AddThenRemove ==
  \A id \in CourseIdInputs, sem \in ActualSemesterInputs :
    LET added == add_course(catalog, term_credit_limit, items, id, sem)
        removed == remove_course(added.items, id)
    IN  (~has_course(items, id) /\ added.err = "ok") =>
          /\ removed.err = "ok"
          /\ total_credits(catalog, removed.items) = total_credits(catalog, items)
          /\ has_course(removed.items, id) = has_course(items, id)

\* remove_course has just succeeded and left a plan of one course to which
\* a course that is not enrolled can be added: where the round trip starts.
C11_Witness ==
  /\ op = "remove_course"
  /\ result = "ok"
  /\ Len(items) = 1
  /\ \E id \in CatalogIds : ~Enrolled(id) /\
        \E sem \in ActualSemesterInputs :
          add_course(catalog, term_credit_limit, items, id, sem).err = "ok"

\* C12 as stated: in every reachable plan, for every id and sem, the second
\* of two add_course(id, sem) calls in a row raises DuplicateEnrollment and
\* leaves the plan as the first call left it.
C12_SecondAddAlwaysDuplicate ==
  \A id \in CourseIdInputs, sem \in ActualSemesterInputs :
    LET first == add_course(catalog, term_credit_limit, items, id, sem)
        second == add_course(catalog, term_credit_limit, first.items, id, sem)
    IN  /\ second.err = "DuplicateEnrollment"
        /\ second.items = first.items

\* C12: in every reachable plan, when add_course(id, sem) succeeds or finds
\* the course enrolled, the same call made again at once raises
\* DuplicateEnrollment and leaves the plan of the first call as it is; when
\* the first call fails for another reason, the second fails with the same
\* error and leaves the plan as it is.
C12_SecondAddIsDuplicate ==
  \A id \in CourseIdInputs, sem \in ActualSemesterInputs :
    LET first == add_course(catalog, term_credit_limit, items, id, sem)
        second == add_course(catalog, term_credit_limit, first.items, id, sem)
    IN  /\ second.items = first.items
        /\ second.err = IF first.err = "ok" THEN "DuplicateEnrollment"
                        ELSE first.err

\* add_course has just refused, as a duplicate, a call whose arguments
\* break no rule that the first call of the same arguments could break:
\* semester valid, course known, season matching.
C12_Witness ==
  /\ op = "add_course"
  /\ result = "DuplicateEnrollment"
  /\ violated \subseteq {"DuplicateEnrollment", "CreditCapExceeded"}

\* The positions of the plan's items: a subset of them is what an aggregate
\* covers.
AllItems == DOMAIN items

InSemester(sem) == {i \in AllItems : items[i].actual_semester = sem}

\* The number written by the digits before the season of a semester of at
\* most two digits.
YearOf(sem) ==
  LET value(ch) == CHOOSE d \in 0..9 : DigitChars[d + 1] = ch
  IN  IF Len(sem) = 2 THEN value(sem[1]) ELSE 10 * value(sem[1]) + value(sem[2])

InYear(y) == {i \in AllItems : YearOf(items[i].actual_semester) = y}

\* The items of a course whose category, white space around it left out, is
\* one of the two major categories.
MajorItems ==
  {i \in AllItems : \E m \in MAJOR_CATEGORIES, j \in 0..1 :
     LET name == CourseOf(items[i].course_id).category
     IN  j + Len(m) <= Len(name) /\ SubSeq(name, j + 1, j + Len(m)) = m
           /\ \A n \in DOMAIN name : (n <= j \/ n > j + Len(m)) => name[n] = " "}

Ungraded(S) == Cardinality({i \in S : items[i].gpa = None})

RECURSIVE CreditsOf(_)
\* The credits of the items at the positions S.
CreditsOf(S) ==
  IF S = {} THEN 0
  ELSE LET i == CHOOSE n \in S : TRUE
       IN  CourseOf(items[i].course_id).credits + CreditsOf(S \ {i})

\* The semesters and years the aggregates are read for: every semester
\* offered to add_course and one more, every year up to 12.
SemesterReads == TermInputs \cup { <<"2", "F">> }

YearReads == 0..12

\* Every reading of an aggregate in the current state, as the pair of what
\* it returns and the positions of the items it covers.
Readings ==
  {<<semester_gpa(catalog, items, sem).val, InSemester(sem)>> :
     sem \in SemesterReads}
    \cup {<<yearly_gpa(catalog, items)[y], InYear(y)>> :
            y \in DOMAIN yearly_gpa(catalog, items)}
    \cup {<<major_gpa(catalog, items), MajorItems>>,
          <<overall_gpa(catalog, items), AllItems>>}

\* C13 as stated: every aggregate over a subset with k >= 1 ungraded items
\* returns (None, k), k counting the ungraded items of that subset only, and
\* every aggregate over a subset that is not empty and has no ungraded item
\* (after set_gpa graded the last one) returns an average that is not None
\* with count 0.
C13_GradedIsDefined ==
  \A r \in Readings :
    /\ Ungraded(r[2]) >= 1 => r[1] = <<None, Ungraded(r[2])>>
    /\ (r[2] # {} /\ Ungraded(r[2]) = 0) => (r[1][1] # None /\ r[1][2] = 0)

\* C13: every aggregate over a subset with k >= 1 ungraded items returns
\* (None, k), k counting the ungraded items of that subset only, and every
\* aggregate over a subset without ungraded item whose credits are more than
\* 0 returns an average that is not None with count 0.
C13_GradedWithCreditsIsDefined ==
  \A r \in Readings :
    /\ Ungraded(r[2]) >= 1 => r[1] = <<None, Ungraded(r[2])>>
    /\ (Ungraded(r[2]) = 0 /\ CreditsOf(r[2]) > 0) =>
         (r[1][1] # None /\ r[1][2] = 0)

\* set_gpa has just graded the last ungraded major item: major_gpa is an
\* average while an item outside the major subset is still ungraded and
\* blanks overall_gpa with a count of 1.
C13_Witness ==
  /\ op = "set_gpa"
  /\ result = "ok"
  /\ Cardinality(MajorItems) = 2
  /\ major_gpa(catalog, items)[1].k = "num"
  /\ overall_gpa(catalog, items) = <<None, 1>>

RECURSIVE WeightOf(_)
\* The sum of GPA times credits of the items at the positions S, none of
\* them graded NaN.
WeightOf(S) ==
  IF S = {} THEN 0
  ELSE LET i == CHOOSE n \in S : TRUE
       IN  items[i].gpa.v * CourseOf(items[i].course_id).credits
             + WeightOf(S \ {i})

\* The weighted mean of the graded items at the positions S, whose credits
\* are more than 0, to the nearest thousandth; NaN when a GPA of S is NaN.
MeanOf(S) ==
  LET w == WeightOf(S)
      c == CreditsOf(S)
  IN  IF \E i \in S : items[i].gpa = NaN THEN NaN
      ELSE Num(CHOOSE m \in {w \div c, (w \div c) + 1} :
                 2 * (m * c - w) <= c /\ 2 * (w - m * c) < c)

\* C14: every aggregate over a subset without ungraded item returns
\* (None, 0) when the subset is empty or its credits are 0, and otherwise
\* (the sum of GPA times credits over the sum of credits, rounded to 3
\* decimals, 0); so overall_gpa() of an empty plan is (None, 0), and a term
\* of two courses graded 3.5 with 2 credits and 4.0 with 1 credit reads
\* (3.667, 0).
C14_WeightedMean ==
  /\ \A r \in Readings :
       Ungraded(r[2]) = 0 =>
         r[1] = IF r[2] = {} \/ CreditsOf(r[2]) = 0 THEN <<None, 0>>
                ELSE <<MeanOf(r[2]), 0>>
  /\ items = << >> => overall_gpa(catalog, items) = <<None, 0>>
  /\ \A sem \in SemesterReads :
       (/\ Cardinality(InSemester(sem)) = 2
        /\ \E i, j \in InSemester(sem) :
             /\ items[i].gpa = Num(3500)
             /\ CourseOf(items[i].course_id).credits = 4
             /\ items[j].gpa = Num(4000)
             /\ CourseOf(items[j].course_id).credits = 2)
         => semester_gpa(catalog, items, sem).val = <<Num(3667), 0>>

\* A term holds a course of 2 credits graded 3.5 and a course of 1 credit
\* graded 4.0, and the plan nothing else: the term and the plan read 3.667.
C14_Witness ==
  /\ Len(items) = 2
  /\ \E i, j \in InSemester(<<"1", "F">>) :
       /\ items[i].gpa = Num(3500)
       /\ CourseOf(items[i].course_id).credits = 4
       /\ items[j].gpa = Num(4000)
       /\ CourseOf(items[j].course_id).credits = 2
  /\ overall_gpa(catalog, items) = <<Num(3667), 0>>

\* C15: any two readings of semester_gpa(sem), yearly_gpa()[year],
\* major_gpa() and overall_gpa() that cover the same set of items return the
\* same pair, and yearly_gpa() has a key for exactly the years in which an
\* item lies, the year of an item being the number written by all the
\* digits before the season of its actual semester.
C15_SameItemsSamePair ==
  /\ \A a, b \in Readings : a[2] = b[2] => a[1] = b[1]
  /\ DOMAIN yearly_gpa(catalog, items) = {y \in YearReads : InYear(y) # {}}

\* Two graded major courses in the fall of year 12 and nothing else: the
\* term, the year 12, the major subset and the plan are the same items and
\* read the same average.
C15_Witness ==
  /\ Len(items) = 2
  /\ InSemester(<<"1", "2", "F">>) = AllItems
  /\ MajorItems = AllItems
  /\ overall_gpa(catalog, items)[1].k = "num"
  /\ yearly_gpa(catalog, items)[12] = overall_gpa(catalog, items)

CategoryKey(id) ==
  LET name == CourseOf(id).category
      blanks(n) == [k \in 1..n |-> " "]
      padded(m) == \E lead, trail \in 0..Len(name) :
                     name = blanks(lead) \o m \o blanks(trail)
      names == {CategoryOrder[n] : n \in DOMAIN CategoryOrder}
  IN  IF padded(<< >>) THEN Uncategorized
      ELSE CHOOSE m \in names : padded(m)

\* The rows of credit_progress_by_category(req) are one per category that is
\* a key of req or counts(id) for an enrolled course id; required is the
\* declared value or 0, selected the credits of the items that count for the
\* row's category, completed the credits of those of them that have a GPA.
ProgressRowsAre(req, counts(_)) ==
  LET prog == credit_progress_by_category(catalog, items, req)
      declared == {req[n][1] : n \in DOMAIN req}
      of(key) == {i \in AllItems : counts(items[i].course_id) = key}
  IN  /\ {prog[n].category : n \in DOMAIN prog}
           = declared \cup {counts(items[i].course_id) : i \in AllItems}
      /\ \A a, b \in DOMAIN prog : prog[a].category = prog[b].category => a = b
      /\ \A n \in DOMAIN prog :
           LET key == prog[n].category
           IN  /\ prog[n].required =
                    IF key \in declared
                    THEN req[CHOOSE k \in DOMAIN req : req[k][1] = key][2]
                    ELSE 0
               /\ prog[n].selected = CreditsOf(of(key))
               /\ prog[n].completed =
                    CreditsOf({i \in of(key) : items[i].gpa # None})

\* The category of a course as the catalogue holds it.
CategoryAsGiven(id) == CourseOf(id).category

\* C17 as stated: for every requirements mapping the rows are one per key of
\* requirements or category of an enrolled course, with the declared
\* requirement or 0, the credits of the enrolled items of that category and
\* the credits of the graded ones among them (so 0 and 0 for a declared
\* category without item), the category of an item being the category of
\* its course as given.
C17_RowsByGivenCategory ==
  \A req \in RequirementInputs : ProgressRowsAre(req, CategoryAsGiven)

\* C17: the same with the category of an item being the category of its
\* course without the white space around it, and "uncategorized" when that
\* is empty; the keys of requirements are taken as given.
C17_RowsByTrimmedCategory ==
  \A req \in RequirementInputs : ProgressRowsAre(req, CategoryKey)

\* The course whose category is written with a leading blank is enrolled
\* and graded and the course with an empty category is enrolled: with the
\* padded name declared there is a row for it without credits, a row of the
\* trimmed name with the course's credits and a row "uncategorized".
C17_Witness ==
  /\ \E i \in AllItems : /\ CourseOf(items[i].course_id).category
                              = <<" ">> \o MajorElective
                         /\ items[i].gpa # None
  /\ \E i \in AllItems : CourseOf(items[i].course_id).category = << >>
  /\ \E req \in RequirementInputs :
       LET prog == credit_progress_by_category(catalog, items, req)
       IN  /\ \E n \in DOMAIN prog :
                /\ prog[n].category = <<" ">> \o MajorElective
                /\ prog[n].selected = 0
           /\ \E n \in DOMAIN prog :
                /\ prog[n].category = MajorElective
                /\ prog[n].completed = 2

\* The required courses of the catalogue that the plan does not hold.
Pending == {c \in {catalog[n] : n \in DOMAIN catalog} :
              c.course_type = "required" /\ ~Enrolled(c.course_id)}

\* The fourth year's semester of the season of a tag.
FourthYear(tag) == <<"4", SeasonIn(tag)>>

\* The semester C18 states for a tag: the tag's year and season when it has
\* a year, the fourth year of its season when it has none.
TargetAsStated(tag) ==
  IF \E n \in DOMAIN tag : tag[n] \in Digits
  THEN SelectSeq(tag, LAMBDA ch : ch # " ")
  ELSE FourthYear(tag)

\* The semester of a tag: the tag itself when it is a year from 1 to 4 and a
\* season without white space; the fourth year of its season when the year
\* is greater, when it has no year or when white space surrounds it.
TargetOf(tag) ==
  IF IsYearSeason(tag) /\ Len(tag) = 2 /\ tag[1] \in {"1", "2", "3", "4"}
  THEN tag
  ELSE FourthYear(tag)

\* A call of auto_add_all_required keeps the items of the plan as they are
\* and in place, adds ungraded items of pending required courses only, each
\* in the semester target gives for its tag, and when it succeeds leaves no
\* required course out.
AutoAddPlaces(target(_)) ==
  op' = "auto_add_all_required" =>
    /\ Len(items') >= Len(items)
    /\ SubSeq(items', 1, Len(items)) = items
    /\ \A n \in (Len(items) + 1)..Len(items') :
         \E c \in Pending :
           items'[n] = PlanItem(c.course_id, target(c.semester), None)
    /\ result' = "ok" =>
         \A c \in Pending : \E n \in DOMAIN items' :
           items'[n].course_id = c.course_id

Earlier(c, d) ==
  \/ ord(SeasonIn(c.semester)) < ord(SeasonIn(d.semester))
  \/ /\ SeasonIn(c.semester) = SeasonIn(d.semester)
     /\ IdRank(c.course_id) < IdRank(d.course_id)

\* The number of pending required courses that come before c.
PendingBefore(c) == Cardinality({d \in Pending : Earlier(d, c)})

\* C19: a call of auto_add_all_required appends the pending required
\* courses in ascending (season, identifier) order; it succeeds when all
\* are appended, and otherwise it raises the failure of add_course for the
\* first pending course it did not append, and appends none of the pending
\* courses that come after that one.
C19_InOrderUntilFailure ==
  [][op' = "auto_add_all_required" =>
       LET added == Len(items') - Len(items)
       IN  /\ added >= 0
           /\ SubSeq(items', 1, Len(items)) = items
           /\ \A n \in 1..added : \E c \in Pending :
                /\ PendingBefore(c) = n - 1
                /\ items'[Len(items) + n].course_id = c.course_id
           /\ result' = "ok" <=> added = Cardinality(Pending)
           /\ result' # "ok" =>
                \E c \in Pending :
                  /\ PendingBefore(c) = added
                  /\ result' = add_course(catalog, term_credit_limit, items',
                                 c.course_id, TargetOf(c.semester)).err
                  /\ \A d \in Pending :
                       Earlier(c, d) => \A n \in DOMAIN items' :
                         items'[n].course_id # d.course_id]_vars

\* auto_add_all_required has failed on the catalogue CoursesC for the
\* credit cap of the spring of year 4: the first course of the order is in
\* that spring, the second is the one that failed, and the third, a fall
\* course, is not enrolled.
C19_Witness ==
  /\ op = "auto_add_all_required"
  /\ result = "CreditCapExceeded"
  /\ catalog = CoursesC
  /\ items # << >>
  /\ items[Len(items)] = PlanItem("A1", <<"4", "S">>, None)
  /\ ~Enrolled("B1")
  /\ ~Enrolled("C1")

\* The credits of the enrolled elective courses.
ElectiveSum ==
  CreditsOf({i \in AllItems : CourseOf(items[i].course_id).course_type = "elective"})

\* What validate() returns in the current state: one message per pending
\* required course, in ascending order of the identifiers, then one message
\* more exactly when the elective credits are below the requirement; so the
\* list is empty exactly when no required course is pending and the
\* elective credits reach the requirement.
ValidateReturns ==
  LET v == validate(catalog, elective_credit_requirement, items)
      k == Cardinality(Pending)
      short == ElectiveSum < elective_credit_requirement
  IN  /\ Len(v) = k + (IF short THEN 1 ELSE 0)
      /\ \A n \in 1..k :
           /\ v[n].kind = "missing_required"
           /\ \E c \in Pending : v[n].course_id = c.course_id
      /\ \A a, b \in 1..k :
           a < b => IdRank(v[a].course_id) < IdRank(v[b].course_id)
      /\ short => v[k + 1].kind = "elective_short"
      /\ v = << >> <=> (Pending = {} /\ ~short)

\* C20: in every reachable state validate() returns exactly one violation
\* per required course that is not enrolled, in ascending order of the
\* course identifiers, and one more exactly when elective_credits() is
\* below elective_credit_requirement; the list is empty exactly when every
\* required course is enrolled and the elective minimum is met; a call of
\* validate() returns normally and leaves the plan as it is.
C20_Validate ==
  /\ []ValidateReturns
  /\ [][op' = "validate" => (result' = "ok" /\ items' = items)]_vars

\* validate() has just been called on a plan over CoursesC that holds the
\* course A1 only: the list names B1, then C1, against the order of the
\* catalogue, then the elective credits.
C20_Witness ==
  /\ op = "validate"
  /\ catalog = CoursesC
  /\ Enrolled("A1")
  /\ LET v == validate(catalog, elective_credit_requirement, items)
     IN  /\ Len(v) = 3
         /\ v[1].course_id = "B1"
         /\ v[2].course_id = "C1"
         /\ v[3].kind = "elective_short"

\* No two courses of the list have the same identifier.
UniqueIds(courses) ==
  \A a, b \in DOMAIN courses :
    courses[a].course_id = courses[b].course_id => a = b

\* A semester tag is a season, or a year and a season, with blanks around.
ValidTag(tag) ==
  \E a, b \in DOMAIN tag :
    /\ \A n \in DOMAIN tag : (n < a \/ n > b) => tag[n] = " "
    /\ \/ a = b /\ tag[a] \in SeasonSet
       \/ IsYearSeason(SubSeq(tag, a, b))

\* C21 as stated: Catalog() succeeds for every course list with unique
\* identifiers and valid semester tags, and fails with DuplicateIdentifier
\* for every course list in which two courses have the same identifier,
\* whatever the other fields and wherever a course with an invalid tag is.
\* The lists are the catalogue of the session with a course put before it
\* and a course put after it.
C21_DuplicateAlwaysReported ==
  \A x, y \in CoursePool :
    LET courses == <<x>> \o catalog \o <<y>>
    IN  /\ (UniqueIds(courses) /\ \A n \in DOMAIN courses :
                                     ValidTag(courses[n].semester))
             => Catalog(courses) = Return(courses)
        /\ ~UniqueIds(courses) => Catalog(courses).err = "DuplicateIdentifier"

\* A tag comes before another as str: at the first position where they
\* differ the first has the smaller character, or has ended.
TagBefore(a, b) ==
  \E k \in 1..Len(b) :
    /\ \A n \in 1..(k - 1) : n <= Len(a) /\ a[n] = b[n]
    /\ k > Len(a) \/ (k <= Len(a) /\ code_point(a[k]) < code_point(b[k]))

\* The list is in ascending order of (semester tag, course identifier).
AscendingOffer(list) ==
  \A a, b \in DOMAIN list :
    a < b => \/ TagBefore(list[a].semester, list[b].semester)
             \/ /\ list[a].semester = list[b].semester
                /\ IdRank(list[a].course_id) < IdRank(list[b].course_id)

\* The two lists hold the courses of the catalogue whose tag names the
\* season, each once, the required ones in the first list, and each list is
\* in ascending order.
OfferOf(lists, season) ==
  LET there == {n \in DOMAIN catalog : SeasonIn(catalog[n].semester) = season}
  IN  /\ Len(lists.required) + Len(lists.elective) = Cardinality(there)
      /\ \A n \in there :
           IF catalog[n].course_type = "required"
           THEN \E k \in DOMAIN lists.required : lists.required[k] = catalog[n]
           ELSE \E k \in DOMAIN lists.elective : lists.elective[k] = catalog[n]
      /\ AscendingOffer(lists.required)
      /\ AscendingOffer(lists.elective)

\* C23 as stated: for each of the three seasons offered_in_by_type returns
\* two lists that hold the courses whose tag names the season, each once and
\* no other, each list ascending by (semester tag, course identifier); any
\* other argument raises InvalidSeason.
C23_OfferedAsGiven ==
  \A season \in SeasonInputs :
    LET r == offered_in_by_type(catalog, season)
    IN  IF season \in {<<ch>> : ch \in SeasonSet}
        THEN r.err = "ok" /\ OfferOf(r.val, season[1])
        ELSE r.err = "InvalidSeason"

\* C23: the same for an argument that is one of the three seasons once the
\* blanks around it are left out; any other argument raises InvalidSeason.
C23_OfferedStripped ==
  \A season \in SeasonInputs :
    LET r == offered_in_by_type(catalog, season)
        core == SelectSeq(season, LAMBDA ch : ch # " ")
    IN  IF core \in {<<ch>> : ch \in SeasonSet}
        THEN r.err = "ok" /\ OfferOf(r.val, core[1])
        ELSE r.err = "InvalidSeason"

\* offered_in_by_type has returned for a catalogue of three required fall
\* courses listed by ascending identifier with the tags "1F", "10F" and
\* " 1F": the required list of the fall is in the opposite order.
C23_Witness ==
  /\ op = "offered_in_by_type"
  /\ result = "ok"
  /\ Len(catalog) = 3
  /\ \A n \in DOMAIN catalog : catalog[n].course_type = "required"
  /\ LET req == offered_in_by_type(catalog, <<"F">>).val.required
     IN  /\ Len(req) = 3
         /\ \A n \in 1..3 : req[n] = catalog[4 - n]
         /\ req[1].semester = <<" ", "1", "F">>

\* C22: a plan that load_from_config has returned never holds two items of
\* one course identifier (a document with two such items fails to load).
C22_LoadedItemsUnique ==
  (op = "load_from_config" /\ result = "ok") =>
    \A a, b \in DOMAIN items : items[a].course_id = items[b].course_id => a = b

\* C24: in a plan that load_from_config has returned, the season of every
\* item's actual semester is the season of its course's tag, and the credits
\* of every actual semester are at most term_credit_limit.
C24_LoadedPlanObeysRules ==
  (op = "load_from_config" /\ result = "ok") =>
    /\ \A n \in DOMAIN items :
         items[n].actual_semester[Len(items[n].actual_semester)]
           = SeasonIn(CourseOf(items[n].course_id).semester)
    /\ \A n \in DOMAIN items :
         CreditsIn(items[n].actual_semester) <= term_credit_limit

\* C25: for the catalogue and the plan of every reachable state,
\* save_to_config followed by load_from_config of the document written
\* succeeds and returns a catalogue with the same courses in the same
\* order and a plan with the same term_credit_limit, the same
\* elective_credit_requirement and the same sequence of items (course
\* identifier, actual semester, GPA).
C25_SaveThenLoad ==
  load_from_config(save_to_config(catalog, term_credit_limit,
                                  elective_credit_requirement, items))
    = Return(<<catalog, term_credit_limit, elective_credit_requirement, items>>)

\* A plan of three items, one in the fall of year 12 graded 3.5, one graded
\* NaN and one ungraded, over a catalogue with a padded and an empty
\* category, is read back from the document written for it.
C25_Witness ==
  /\ Len(items) = 3
  /\ \E n \in DOMAIN items : items[n].gpa = None
  /\ \E n \in DOMAIN items : items[n].gpa = NaN
  /\ \E n \in DOMAIN items : /\ items[n].gpa = Num(3500)
                             /\ items[n].actual_semester = <<"1", "2", "F">>
  /\ load_from_config(save_to_config(catalog, term_credit_limit,
                                     elective_credit_requirement, items)).val[4]
       = items

\* The selected column of the credit progress of a plan, by category.
SelectedColumn(its, req) ==
  LET prog == credit_progress_by_category(catalog, its, req)
  IN  {<<prog[n].category, prog[n].selected>> : n \in DOMAIN prog}

\* C26: a successful set_gpa leaves the order of the items, every item's
\* course and actual semester and the GPA of every item but one as they
\* were, and with them total_credits(), every semester_credits(sem) and the
\* selected column of the credit progress; a successful remove_course
\* deletes exactly one item and keeps the others in their order with their
\* GPAs.
C26_Frame ==
  [][/\ (op' = "set_gpa" /\ result' = "ok") =>
          /\ Len(items') = Len(items)
          /\ \A n \in DOMAIN items :
               /\ items'[n].course_id = items[n].course_id
               /\ items'[n].actual_semester = items[n].actual_semester
          /\ Cardinality({n \in DOMAIN items : items'[n].gpa # items[n].gpa}) <= 1
          /\ total_credits(catalog, items') = total_credits(catalog, items)
          /\ \A sem \in SemesterReads :
               semester_credits(catalog, items', sem)
                 = semester_credits(catalog, items, sem)
          /\ \A req \in RequirementInputs :
               SelectedColumn(items', req) = SelectedColumn(items, req)
     /\ (op' = "remove_course" /\ result' = "ok") =>
          \E k \in DOMAIN items :
            items' = SubSeq(items, 1, k - 1) \o SubSeq(items, k + 1, Len(items))
    ]_vars

\* set_gpa has just succeeded on a plan of three courses of which one, not
\* the first, is graded.
C26_Witness ==
  /\ op = "set_gpa"
  /\ result = "ok"
  /\ Len(items) = 3
  /\ items[1].gpa = None
  /\ Cardinality({n \in DOMAIN items : items[n].gpa # None}) = 1

\* C27: whenever auto_add_all_required returns without error on a reachable
\* plan, required_missing() is empty on the plan it leaves, and
\* auto_add_all_required called again on that plan returns without error
\* and leaves its items as they are.
C27_AutoAddIdempotent ==
  LET once == auto_add_all_required(catalog, term_credit_limit, items)
      twice == auto_add_all_required(catalog, term_credit_limit, once.items)
  IN  once.err = "ok" =>
        /\ required_missing(catalog, once.items) = << >>
        /\ twice = Outcome("ok", once.items)

\* auto_add_all_required has just succeeded and added the last two items
\* of the plan; no required course is missing.
C27_Witness ==
  /\ op = "auto_add_all_required"
  /\ result = "ok"
  /\ Len(items) = 3
  /\ items[1].gpa # None
  /\ items[2].gpa = None /\ items[3].gpa = None
  /\ required_missing(catalog, items) = << >>

RECURSIVE SumSelected(_)
\* The sum of the selected column of the rows.
SumSelected(rows) ==
  IF rows = << >> THEN 0
  ELSE rows[1].selected + SumSelected(Tail(rows))

RECURSIVE SumSemesterCredits(_)
\* The sum of semester_credits(s) over the semesters S.
SumSemesterCredits(S) ==
  IF S = {} THEN 0
  ELSE LET sem == CHOOSE x \in S : TRUE
       IN  semester_credits(catalog, items, sem).val
             + SumSemesterCredits(S \ {sem})

\* C28: in every reachable state, for every requirements mapping, every row
\* of credit_progress_by_category has 0 <= completed <= selected and the
\* selected column sums to total_credits(); the sum of semester_credits(s)
\* over the keys s of grouped() is total_credits().
C28_CreditSums ==
  /\ \A req \in RequirementInputs :
       LET prog == credit_progress_by_category(catalog, items, req)
       IN  /\ \A n \in DOMAIN prog :
                0 <= prog[n].completed /\ prog[n].completed <= prog[n].selected
           /\ SumSelected(prog) = total_credits(catalog, items)
  /\ \A sem \in DOMAIN grouped(catalog, items) :
       semester_credits(catalog, items, sem).err = "ok"
  /\ SumSemesterCredits(DOMAIN grouped(catalog, items))
       = total_credits(catalog, items)

\* A plan with a graded course of 2 credits in the fall of year 12, which is
\* no semester of PLAN_SEMESTERS, and an ungraded course of 1 credit in the
\* fall of year 1: 3 credits in all, 2 of them completed.
C28_Witness ==
  /\ total_credits(catalog, items) = 6
  /\ <<"1", "2", "F">> \in DOMAIN grouped(catalog, items)
  /\ semester_credits(catalog, items, <<"1", "2", "F">>).val = 4
  /\ \E n \in DOMAIN items : items[n].gpa = None
  /\ \E n \in DOMAIN items : items[n].gpa # None
====
